---- MODULE Spec2Model ----
(***************************************************************************)
(* TimeCapsule: the App shell (views, geolocation, nearby filter, scan,    *)
(* capsule store) and the AR view (hand-gesture classifier, interaction    *)
(* effect, pointer pick, proximity gate), as a React state machine.        *)
(*                                                                         *)
(* React is modelled by its commit discipline: an event handler or an      *)
(* asynchronous callback sets state slots; the slots whose value or        *)
(* reference changed are recorded in `changed`; FlushEffects then runs     *)
(* every effect whose dependency list meets `changed`, with the values of  *)
(* the committed render, and batches the updates the effects make.  The    *)
(* state is settled when `changed` is empty, and handlers run on settled   *)
(* states only (React flushes pending passive effects before it processes  *)
(* the next update).                                                       *)
(***************************************************************************)
EXTENDS Integers, Sequences, FiniteSets, TLC

\* ------------------------------------------------------------------ bounds
\* capsules of one device: stored by earlier runs or saved in this one
\* (ids are handed out 1..MaxCapsules)
MaxCapsules == 2

\* user positions and capsule anchors: metres along one meridian
Positions == {0, 49, 50, 1050}
\* usernames typed at the login screen, as sequences of characters
Usernames ==
    { <<"n", "e", "o">>,
      <<"t", "r", "i", "n", "i", "t", "y", "1">>,
      <<"t", "r", "i", "n", "i", "t", "y", "2">> }
\* landmark counts a perception result may carry (21 is well-formed)
LandmarkCounts == {9, 21}

\* ------------------------------------------------------- program constants
UNLOCK_RADIUS == 50
NEARBY_RADIUS == 1000
FULL_HAND == 21
INFINITY == 1000000

\* setTimeout(() => onComplete(), 4000), in seconds
SPLASH_SECONDS == 4

NoLoc == -1
NoUser == "none"
NoCapsule == [id |-> 0, coordinates |-> 0, userId |-> NoUser]

Abs(x) == IF x < 0 THEN -x ELSE x

\* geoUtils.calculateDistance: haversine great-circle distance in metres.
\* Coordinates are restricted to one meridian, where the great-circle
\* distance is the difference of the arc positions.
calculateDistanceSigned(a, b) == a - b
calculateDistance(a, b) == Abs(a - b)

\* ------------------------------------------------------------ authService
\* The character codes of the characters of Usernames.
charCodeAt ==
    [c \in {"n", "e", "o", "t", "r", "i", "y", "1", "2"} |->
        CASE c = "n" -> 110 [] c = "e" -> 101 [] c = "o" -> 111
          [] c = "t" -> 116 [] c = "r" -> 114 [] c = "i" -> 105
          [] c = "y" -> 121 [] c = "1" -> 49  [] c = "2" -> 50]

Base64 ==
    <<"A", "B", "C", "D", "E", "F", "G", "H", "I", "J", "K", "L", "M",
      "N", "O", "P", "Q", "R", "S", "T", "U", "V", "W", "X", "Y", "Z",
      "a", "b", "c", "d", "e", "f", "g", "h", "i", "j", "k", "l", "m",
      "n", "o", "p", "q", "r", "s", "t", "u", "v", "w", "x", "y", "z",
      "0", "1", "2", "3", "4", "5", "6", "7", "8", "9", "+", "/">>

\* btoa: three bytes make four base64 characters; a last group of one or
\* two bytes is padded with "=".  The result is a sequence of characters.
RECURSIVE btoa(_)
btoa(str) ==
    IF str = <<>> THEN <<>>
    ELSE LET n == Len(str)
             b0 == charCodeAt[str[1]]
             b1 == IF n >= 2 THEN charCodeAt[str[2]] ELSE 0
             b2 == IF n >= 3 THEN charCodeAt[str[3]] ELSE 0
         IN << Base64[(b0 \div 4) + 1],
               Base64[((b0 % 4) * 16) + (b1 \div 16) + 1],
               IF n >= 2 THEN Base64[((b1 % 16) * 4) + (b2 \div 64) + 1] ELSE "=",
               IF n >= 3 THEN Base64[(b2 % 64) + 1] ELSE "=" >>
            \o btoa(IF n > 3 THEN SubSeq(str, 4, n) ELSE <<>>)

\* String.prototype.substring(from, to)
substring(str, from, to) ==
    SubSeq(str, from + 1, IF to < Len(str) THEN to ELSE Len(str))

\* the characters of a sequence as one string
RECURSIVE join(_)
join(str) == IF str = <<>> THEN "" ELSE Head(str) \o join(Tail(str))

\* Mutant: the id is made of the whole encoded username.
loginUserWhole(username) ==
    [id |-> "usr_" \o join(btoa(username)), username |-> username]

\* loginUser: id: `usr_${btoa(username).substring(0, 10)}`
loginUser(username) ==
    [id |-> "usr_" \o join(substring(btoa(username), 0, 10)),
     username |-> username]

\* the accounts of Usernames, and the account of the device's usual user
Accounts == { loginUser(n).id : n \in Usernames }
Users == { loginUser(<<"n", "e", "o">>).id }

VARIABLES
    \* ---- App state (useState slots)
    appState, currentUser, currentView, location, isScanning,
    capsules, nearbyCapsules, statusMessage,
    \* ---- localStorage
    session, store,
    \* ---- pending asynchronous work
    scanTimers, savePending, nextId,
    \* ---- the splash screen's transition timer: seconds run since it was
    \*      last set, and seconds the splash has been shown
    splashTimer,
    \* ---- SignalComposer: its grid and the BROADCAST presses since it was
    \*      mounted, and the transmission timers pending
    composer, transmitTimers,
    \* ---- ARView state (useState slots, refs and the onResults closure)
    handGesture, handDetected, selectedCapsule, streamActive,
    closureGesture, capsulesRef,
    \* ---- the perception loop of the current hand-tracking effect: pending
    \*      animation-frame requests and hands.send calls awaited
    loop,
    \* ---- what a torn-down perception loop can still do
    late,
    \* ---- React bookkeeping: slots changed by the last commit
    changed,
    \* ---- history: the last handler that ran in the AR view, and how the
    \*      current selection was made
    lastOp, selInfo

appVars == <<appState, currentUser, currentView, location, isScanning,
             capsules, nearbyCapsules, statusMessage>>
storeVars == <<session, store>>
asyncVars == <<scanTimers, savePending, nextId, transmitTimers>>
arVars == <<handGesture, handDetected, selectedCapsule, streamActive,
            closureGesture, capsulesRef, loop>>
vars == <<appVars, storeVars, asyncVars, splashTimer, composer, arVars, late,
          changed, lastOp, selInfo>>

Msg(m, n) == [msg |-> m, n |-> n]
NoOp == [op |-> "none", n |-> 0, folded |-> 0, prev |-> "NONE",
         id |-> 0, threw |-> FALSE, set |-> FALSE]
NoSel == [by |-> "none", at |-> 0]
NoLoop == [raf |-> 0, sends |-> 0]
NoTimer == [timer |-> -1, shown |-> -1]
\* SignalComposer's initial state: no cell of the grid is active
NoComposer == [grid |-> "empty", presses |-> 0]

\* ------------------------------------------------------------ the AR mount
\* <ARView> is rendered iff appState === 'main', currentView === 'ar-view'
\* and location is set.
ARMountedIn(as, cv, loc) == as = "main" /\ cv = "ar-view" /\ loc # NoLoc
ARMounted == ARMountedIn(appState, currentView, location)

Settled == changed = {}

\* Mutant: the AR view is hidden instead of unmounted, its state is kept.
ARKept ==
    /\ UNCHANGED arVars
    /\ selInfo' = selInfo

\* ARView's initial state: the useState/useRef initial values.
ARInitial ==
    /\ handGesture' = "NONE"
    /\ handDetected' = FALSE
    /\ selectedCapsule' = NoCapsule
    /\ streamActive' = FALSE
    /\ closureGesture' = "NONE"
    /\ capsulesRef' = <<>>
    /\ loop' = NoLoop
    /\ selInfo' = NoSel

\* ------------------------------------------------------- the perception loop
\* Mutant: processVideo requests the next animation frame without awaiting
\* hands.send.
sendNotAwaited == FALSE

\* processVideo awaits hands.send before it requests the next frame.
sendAwaited == TRUE

\* processVideo with its guard passed, up to the await: one more send is in
\* flight.
submit(l) ==
    [raf |-> IF sendAwaited THEN l.raf ELSE l.raf + 1, sends |-> l.sends + 1]

\* hands.send settles and processVideo runs on to requestAnimationFrame.
resolve(l) ==
    [raf |-> IF sendAwaited THEN l.raf + 1 ELSE l.raf, sends |-> l.sends - 1]

\* The effect's cleanup: cancelAnimationFrame(frameId) takes back the pending
\* request, hands.close() shuts the tracker; a send that is being awaited
\* stays in flight.
teardown(l) == [raf |-> 0, sends |-> l.sends]

\* Mutant: onResults and processVideo without their checks of the refs.
orphanActsUnguarded(l, attached) ==
    IF l.sends = 0 THEN {} ELSE {"detect", "send"}

\* What a torn-down loop can still do.  With no send in flight, nothing: the
\* frame request is cancelled.  Otherwise the tracker may still deliver the
\* result, and onResults returns early unless handCanvasRef.current is set;
\* and when the send settles processVideo requests a frame again and, on that
\* frame, sends only if videoRef.current is set (then the loop is alive
\* again).  `attached`: the component is still mounted, so its refs are set.
orphanActs(l, attached) ==
    IF l.sends = 0 THEN {}
    ELSE (IF attached THEN {"detect"} ELSE {})
           \cup (IF attached THEN {"send"} ELSE {})

\* An App-level update commits: the AR view is mounted afresh, unmounted or
\* re-rendered with its state kept.  `slots` are the App slots the update
\* changed.  lastOp remembers a session that ended with an open hand and an
\* active selection (and the sends then in flight), up to the first handler
\* of the next session.
\* Mutant: the timer is set once, when the splash mounts, and a re-render
\* leaves it alone.
SplashRenderKeeps(timer, rendered) == timer

\* SplashScreen's effect has the dependency list [onComplete], and the App
\* passes handleSplashComplete, a function made anew by every render of the
\* App: when the App re-renders the cleanup clears the timer and the effect
\* sets a new one of 4 s.
SplashRender(timer, rendered) ==
    IF rendered THEN [timer EXCEPT !.timer = 0] ELSE timer

ARCommit(slots) ==
    IF ARMountedIn(appState', currentView', location')
    THEN IF ARMounted
         THEN /\ UNCHANGED arVars
              /\ UNCHANGED <<selInfo, late>>
              /\ lastOp' = NoOp
              /\ changed' = slots
         ELSE /\ ARInitial
              /\ UNCHANGED late
              /\ lastOp' = IF lastOp.op = "teardown"
                            THEN [lastOp EXCEPT !.op = "entry"] ELSE NoOp
              /\ changed' = slots \cup {"arMount"}
    ELSE /\ ARInitial
         /\ late' = IF ARMounted
                     THEN late \cup orphanActs(teardown(loop), FALSE)
                     ELSE late
         /\ lastOp' = IF ~ARMounted THEN lastOp
                       ELSE IF handGesture = "OPEN" /\ selectedCapsule # NoCapsule
                            THEN [NoOp EXCEPT !.op = "teardown",
                                              !.prev = handGesture,
                                              !.n = loop.sends]
                            ELSE NoOp
         /\ changed' = slots

\* <SignalComposer> is rendered iff appState === 'main' and
\* currentView === 'signal-composer'.
ComposerMountedIn(as, cv) == as = "main" /\ cv = "signal-composer"
ComposerMounted == ComposerMountedIn(appState, currentView)

AppCommit(slots) ==
    /\ ARCommit(slots)
    /\ composer' = IF ComposerMounted /\ ComposerMountedIn(appState', currentView')
                   THEN composer ELSE NoComposer
    /\ splashTimer' =
         IF appState' # "splash" THEN NoTimer
         ELSE SplashRender(splashTimer, slots # {} \/ appVars' # appVars)

\* -------------------------------------------------------------------- Init
\* The state of the first render.  localStorage may hold the session of an
\* earlier run (which then also wrote that user's capsule key).
NoData == [has |-> FALSE, data |-> <<>>]
Init ==
    /\ appState = "splash"
    /\ currentUser = NoUser
    /\ currentView = "radar"
    /\ location = NoLoc
    /\ isScanning = FALSE
    /\ capsules = <<>>
    /\ nearbyCapsules = <<>>
    /\ statusMessage = Msg("SYSTEM INITIALIZING...", 0)
    /\ session \in {NoUser} \cup Users
    /\ store = [u \in Users |->
                  IF u = session THEN [has |-> TRUE, data |-> <<>>] ELSE NoData]
    /\ scanTimers = <<>>
    /\ savePending = [active |-> FALSE, user |-> NoUser, loc |-> NoLoc]
    /\ nextId = 1
    /\ splashTimer = [timer |-> 0, shown |-> 0]
    /\ composer = NoComposer
    /\ transmitTimers = <<>>
    /\ handGesture = "NONE"
    /\ handDetected = FALSE
    /\ selectedCapsule = NoCapsule
    /\ streamActive = FALSE
    /\ closureGesture = "NONE"
    /\ capsulesRef = <<>>
    /\ loop = NoLoop
    /\ late = {}
    /\ changed = {"mount"}
    /\ lastOp = NoOp
    /\ selInfo = NoSel

\* ------------------------------------------------------- App: flow of screens
\* A second passes with the splash shown and its timer not yet due.
SplashWait ==
    /\ Settled
    /\ appState = "splash"
    /\ splashTimer.timer < SPLASH_SECONDS
    /\ splashTimer' = [timer |-> splashTimer.timer + 1,
                       shown |-> IF splashTimer.shown > SPLASH_SECONDS
                                 THEN splashTimer.shown
                                 ELSE splashTimer.shown + 1]
    /\ UNCHANGED <<appVars, storeVars, asyncVars, composer, arVars, late, changed,
                   lastOp, selInfo>>

\* SplashScreen's 4 s timer calls handleSplashComplete.
handleSplashComplete ==
    /\ Settled
    /\ appState = "splash"
    /\ splashTimer.timer = SPLASH_SECONDS
    /\ appState' = "intro"
    /\ UNCHANGED <<currentUser, currentView, location, isScanning, capsules,
                   nearbyCapsules, statusMessage, storeVars, asyncVars>>
    /\ AppCommit({})

handleIntroComplete ==
    /\ Settled
    /\ appState = "intro"
    /\ appState' = IF currentUser # NoUser THEN "main" ELSE "login"
    /\ UNCHANGED <<currentUser, currentView, location, isScanning, capsules,
                   nearbyCapsules, statusMessage, storeVars, asyncVars>>
    /\ AppCommit({})

\* LoginScreen.handleLogin: loginUser stores the session, then
\* handleLoginSuccess.
handleLoginSuccess(u) ==
    /\ Settled
    /\ appState = "login"
    /\ session' = u
    /\ currentUser' = u
    /\ appState' = "main"
    /\ UNCHANGED <<currentView, location, isScanning, capsules,
                   nearbyCapsules, statusMessage, store, asyncVars>>
    /\ AppCommit({"currentUser"})

\* ProfileView's logout button.
\* LoginScreen.handleLogin with a username typed.
handleLogin(username) == handleLoginSuccess(loginUser(username).id)

handleLogout ==
    /\ Settled
    /\ appState = "main" /\ currentView = "profile" /\ currentUser # NoUser
    /\ session' = NoUser
    /\ currentUser' = NoUser
    /\ appState' = "login"
    /\ capsules' = <<>>
    /\ currentView' = "radar"
    /\ UNCHANGED <<location, isScanning, nearbyCapsules, statusMessage,
                   store, asyncVars>>
    /\ AppCommit({"currentUser", "capsules"})

\* The buttons that call setCurrentView: from the radar to create,
\* signal-composer, view-capsule; the header's profile button; and every
\* view's back/cancel button to the radar.
CanNavigate(to) ==
    /\ appState = "main"
    /\ \/ currentView = "radar"
          /\ to \in {"create", "signal-composer", "view-capsule"}
       \/ currentView \in {"radar", "view-capsule", "create"}
          /\ currentUser # NoUser /\ to = "profile"
       \/ currentView \in {"create", "view-capsule", "signal-composer"}
          /\ to = "radar"
       \/ currentView = "profile" /\ currentUser # NoUser /\ to = "radar"
       \/ ARMounted /\ to = "radar"

setCurrentView(to) ==
    /\ Settled
    /\ CanNavigate(to)
    /\ currentView' = to
    /\ UNCHANGED <<appState, currentUser, location, isScanning, capsules,
                   nearbyCapsules, statusMessage, storeVars, asyncVars>>
    /\ AppCommit({})

\* ------------------------------------------------------- App: geolocation
\* watchPosition's success callback.
LocationUpdate(p) ==
    /\ Settled
    /\ location' = p
    /\ statusMessage' = Msg("GPS LOCKED. SYSTEM ONLINE.", 0)
    /\ UNCHANGED <<appState, currentUser, currentView, isScanning, capsules,
                   nearbyCapsules, storeVars, asyncVars>>
    /\ AppCommit({"location"})

\* watchPosition's error callback.
LocationError ==
    /\ Settled
    /\ statusMessage' = Msg("WARNING: GPS SIGNAL LOST", 0)
    /\ UNCHANGED <<appState, currentUser, currentView, location, isScanning,
                   capsules, nearbyCapsules, storeVars, asyncVars>>
    /\ AppCommit({})

\* ------------------------------------------------------- App: radar scan
\* The scan button (disabled while scanning) calls handleScan, which starts
\* the 2 s timer; the timer's closure holds the nearbyCapsules of the render
\* the handler came from.
\* Mutant: the scan button stays enabled during a scan.
scanButtonAlways(scanning) == TRUE

\* RadarView's scan button: disabled={scanning}
scanButton(scanning) == ~scanning

handleScan ==
    /\ Settled
    /\ appState = "main" /\ currentView = "radar" /\ scanButton(isScanning)
    /\ statusMessage' =
         IF location = NoLoc
         THEN Msg("WARNING: SATELLITE LINK UNSTABLE. SCANNING CACHED SECTOR...", 0)
         ELSE Msg("SCANNING LOCAL SECTOR (1KM RADIUS)...", 0)
    /\ isScanning' = TRUE
    /\ scanTimers' = Append(scanTimers, Len(nearbyCapsules))
    /\ UNCHANGED <<appState, currentUser, currentView, location, capsules,
                   nearbyCapsules, storeVars, savePending, nextId,
                   transmitTimers>>
    /\ AppCommit({})

\* Mutant: one signal does not count.
signalsFoundTwo(n) == n > 1

\* Mutant: the view switches whatever the count.
signalsFoundAlways(n) == n >= 0

\* nearbyCapsules.length > 0
signalsFound(n) == n > 0

\* Mutant: the callback reads the list of the current render (as through a
\* ref) instead of the one it closed over.
scanCountLive(captured, current) == current

\* The timer callback reads the nearbyCapsules of the handleScan closure that
\* set the timer.
scanCount(captured, current) == captured

ScanTimeout ==
    /\ Settled
    /\ scanTimers # <<>>
    /\ LET n == scanCount(Head(scanTimers), Len(nearbyCapsules)) IN
         /\ isScanning' = FALSE
         /\ IF signalsFound(n)
            THEN /\ statusMessage' = Msg("SIGNALS DETECTED. ENGAGING HUD.", n)
                 /\ currentView' = "ar-view"
            ELSE /\ statusMessage' = Msg("NO TRACES FOUND IN SECTOR.", 0)
                 /\ UNCHANGED currentView
    /\ scanTimers' = Tail(scanTimers)
    /\ UNCHANGED <<appState, currentUser, location, capsules, nearbyCapsules,
                   storeVars, savePending, nextId, transmitTimers>>
    /\ AppCommit({})

\* ------------------------------------------------------- App: saving a capsule
\* CreateCapsule.handleSave awaits the analysis and then calls the onSave it
\* was rendered with: the handleSaveCapsule closure over that render's
\* currentUser and location.
handleSave ==
    /\ Settled
    /\ appState = "main" /\ currentView = "create"
    /\ ~savePending.active
    /\ nextId <= MaxCapsules
    /\ savePending' = [active |-> TRUE, user |-> currentUser, loc |-> location]
    /\ UNCHANGED <<appVars, storeVars, scanTimers, nextId, transmitTimers>>
    /\ AppCommit({})

handleSaveCapsule ==
    /\ Settled
    /\ savePending.active
    /\ savePending' = [active |-> FALSE, user |-> NoUser, loc |-> NoLoc]
    /\ IF savePending.user = NoUser
       THEN UNCHANGED <<appVars, nextId>> /\ AppCommit({})
       ELSE LET activeLocation ==
                    IF savePending.loc # NoLoc THEN savePending.loc ELSE 0
                newCapsule == [id |-> nextId, coordinates |-> activeLocation,
                               userId |-> savePending.user]
            IN /\ capsules' = Append(capsules, newCapsule)
               /\ nextId' = nextId + 1
               /\ currentView' = "radar"
               /\ statusMessage' = Msg("MEMORY TRACE ESTABLISHED.", 0)
               /\ UNCHANGED <<appState, currentUser, location, isScanning,
                              nearbyCapsules>>
               /\ AppCommit({"capsules"})
    /\ UNCHANGED <<storeVars, scanTimers, transmitTimers>>

\* ------------------------------------------------------- the signal composer
\* toggleCell and clearGrid: the grid with or without an active cell.
toggleCell ==
    /\ Settled
    /\ ComposerMounted
    /\ composer' = [composer EXCEPT
                      !.grid = IF @ = "empty" THEN "notes" ELSE "empty"]
    /\ UNCHANGED <<appVars, storeVars, asyncVars, splashTimer, arVars, late,
                   changed, lastOp, selInfo>>

\* Mutant: the BROADCAST button is disabled once it was pressed.
broadcastButtonOnce(presses) == presses = 0

\* The BROADCAST button carries no `disabled`, and the transmission overlay
\* above it is `pointer-events-none`: the button takes every press.
broadcastButton(presses) == TRUE

\* const isEmpty = !grid.some(row => row.some(cell => cell))
isEmpty(grid) == grid = "empty"

\* SignalComposer.handleTransmit: returns on an empty grid; otherwise sets
\* the 2 s timer, whose closure holds the onTransmit of this render, that
\* is handleBroadcastSignal and handleSaveCapsule over this render's
\* currentUser and location.
handleTransmit ==
    /\ Settled
    /\ ComposerMounted
    /\ broadcastButton(composer.presses)
    /\ ~isEmpty(composer.grid)
    /\ nextId + Len(transmitTimers) <= MaxCapsules
    /\ composer' = [composer EXCEPT !.presses = @ + 1]
    /\ transmitTimers' = Append(transmitTimers,
                                [user |-> currentUser, loc |-> location,
                                 press |-> composer.presses + 1])
    /\ UNCHANGED <<appVars, storeVars, scanTimers, savePending, nextId,
                   splashTimer, arVars, late, changed, lastOp, selInfo>>

\* The timer fires: onTransmit(grid), that is handleBroadcastSignal, which
\* calls handleSaveCapsule and then sets the status line.
handleBroadcastSignal ==
    /\ Settled
    /\ transmitTimers # <<>>
    /\ LET t == Head(transmitTimers) IN
         IF t.user = NoUser
         THEN /\ UNCHANGED <<appState, currentUser, currentView, location,
                             isScanning, capsules, nearbyCapsules, nextId>>
              /\ statusMessage' = Msg("SIGNAL BROADCAST COMPLETE.", 0)
              /\ AppCommit({})
         ELSE LET activeLocation == IF t.loc # NoLoc THEN t.loc ELSE 0
                  newCapsule == [id |-> nextId, coordinates |-> activeLocation,
                                 userId |-> t.user]
              IN /\ capsules' = Append(capsules, newCapsule)
                 /\ nextId' = nextId + 1
                 /\ currentView' = "radar"
                 /\ statusMessage' = Msg("SIGNAL BROADCAST COMPLETE.", 0)
                 /\ UNCHANGED <<appState, currentUser, location, isScanning,
                                nearbyCapsules>>
                 /\ AppCommit({"capsules"})
    /\ transmitTimers' = Tail(transmitTimers)
    /\ UNCHANGED <<storeVars, scanTimers, savePending>>

\* ------------------------------------------------------- ARView: perception
\* A landmark frame is the sequence of the points MediaPipe reports;
\* landmark i of the code is element i + 1.  Coordinates are the normalised
\* camera coordinates in hundredths.
Pt(x, y) == [x |-> x, y |-> y]
lm(landmarks, i) == landmarks[i + 1]
Has(landmarks, i) == i + 1 <= Len(landmarks)

\* The frames offered to the classifier: the wrist at the origin, the
\* middle knuckle at distance palm, the thumb tip at distance thumb, the first
\* k of the four fingertips at distance near and the others at distance far.
MakeFrame(n, palm, thumb, k, near, far) ==
    [j \in 1..n |->
        LET i == j - 1 IN
        IF i = 0 THEN Pt(0, 0)
        ELSE IF i = 9 THEN Pt(0, palm)
        ELSE IF i = 4 THEN Pt(thumb, 0)
        ELSE IF i \in {8, 12, 16, 20}
             THEN IF i \div 4 - 1 <= k THEN Pt(0, near) ELSE Pt(0, far)
        ELSE Pt(0, 5)]

Frames ==
    { MakeFrame(n, 10, thumb, k, 15, 16) :
        n \in LandmarkCounts, thumb \in {12, 13}, k \in 0..4 }
    \cup { MakeFrame(FULL_HAND, 0, 12, 4, 15, 16) }

\* Math.pow(dx, 2) + Math.pow(dy, 2)
Dist2(a, b) == (a.x - b.x) * (a.x - b.x) + (a.y - b.y) * (a.y - b.y)

\* sqrt(d2) < sqrt(p2) * r, for the ratio r = num / 10, compared on the
\* squares (both sides are non-negative).
CloserThan(d2, p2, num) == 100 * d2 < num * num * p2

\* detectGesture reads landmarks[0], [9], [8], [12], [16], [20], [4] and
\* dereferences each: a missing one is `undefined` and `.x` throws.
Throws(landmarks) ==
    \E i \in {0, 4, 8, 9, 12, 16, 20} : ~Has(landmarks, i)

\* Mutant: a tip at the threshold counts as folded.
foldedFingersIncl(landmarks) ==
    LET wrist == lm(landmarks, 0)
        palm2 == Dist2(lm(landmarks, 9), wrist)
        foldedTips == { t \in {8, 12, 16, 20} :
                          100 * Dist2(lm(landmarks, t), wrist) <= 16 * 16 * palm2 }
        thumb == IF 100 * Dist2(lm(landmarks, 4), wrist) <= 13 * 13 * palm2
                 THEN 1 ELSE 0
    IN Cardinality(foldedTips) + thumb

foldedFingers(landmarks) ==
    LET wrist == lm(landmarks, 0)
        palm2 == Dist2(lm(landmarks, 9), wrist)
        tips == {8, 12, 16, 20}
        foldedTips == { t \in tips :
                          CloserThan(Dist2(lm(landmarks, t), wrist), palm2, 16) }
        thumb == IF CloserThan(Dist2(lm(landmarks, 4), wrist), palm2, 13)
                 THEN 1 ELSE 0
    IN Cardinality(foldedTips) + thumb

\* Mutant: "4 or 5 fingers folded" written as "more than 4".
newStateFistOff(folded) ==
    IF folded > 4 THEN "CLOSED"
    ELSE IF folded <= 1 THEN "OPEN"
    ELSE "NONE"

\* "Determine State": 'NONE' stands for an ambiguous frame.
newState(folded) ==
    IF folded >= 4 THEN "CLOSED"
    ELSE IF folded <= 1 THEN "OPEN"
    ELSE "NONE"

\* Mutant: the ambiguous branch resets the gesture instead of holding it.
detectGestureReset(landmarks, held, current) ==
    LET ns == newState(foldedFingers(landmarks)) IN
    IF ns # "NONE" /\ ns # held THEN ns
    ELSE IF ns = "NONE" THEN "NONE" ELSE current

\* detectGesture's "debounce": `held` is the handGesture the function closed
\* over; the result is the handGesture after the call.
detectGesture(landmarks, held, current) ==
    LET ns == newState(foldedFingers(landmarks)) IN
    IF ns # "NONE" /\ ns # held THEN ns ELSE current

\* Whether detectGesture calls setHandGesture: the guard compares the
\* classification with the handGesture the function closed over.
callsSetHandGesture(landmarks, held) ==
    LET ns == newState(foldedFingers(landmarks)) IN ns # "NONE" /\ ns # held

TickOp(kind, n, folded, threw, set) ==
    [op |-> kind, n |-> n, folded |-> folded, prev |-> handGesture,
     id |-> 0, threw |-> threw, set |-> set]

\* hands.onResults with a hand in the frame: the callback's state updates.
HandResult(landmarks) ==
    /\ Settled
    /\ ARMounted /\ streamActive /\ loop.sends > 0
    /\ handDetected' = TRUE
    /\ IF Throws(landmarks)
       THEN /\ UNCHANGED handGesture
            /\ lastOp' = TickOp("hand", Len(landmarks), 0, TRUE, FALSE)
       ELSE /\ handGesture' = detectGesture(landmarks, closureGesture, handGesture)
            /\ lastOp' = TickOp("hand", Len(landmarks),
                                foldedFingers(landmarks), FALSE,
                                callsSetHandGesture(landmarks, closureGesture))
    /\ changed' = IF handGesture' # handGesture THEN {"handGesture"} ELSE {}
    /\ UNCHANGED <<appVars, storeVars, asyncVars, splashTimer, composer, selectedCapsule,
                   streamActive, closureGesture, capsulesRef, selInfo, late>>

\* The loop from one result to the next submission: the result is delivered,
\* hands.send resolves, the requested animation frame comes and processVideo
\* sends the frame the video then shows.
nextSubmission(l) == submit([resolve(l) EXCEPT !.raf = @ - 1])

OnResultsHand(landmarks) ==
    /\ HandResult(landmarks)
    /\ loop' = nextSubmission(loop)

\* Mutant: a tick without a hand holds the confirmed gesture.
noHandGestureHold(current) == current

\* The else branch of onResults: setHandGesture('NONE').
noHandGesture(current) == "NONE"

\* hands.onResults without a hand: the callback's state updates.
NoHandResult ==
    /\ Settled
    /\ ARMounted /\ streamActive /\ loop.sends > 0
    /\ handDetected' = FALSE
    /\ handGesture' = noHandGesture(handGesture)
    /\ lastOp' = TickOp("nohand", 0, 0, FALSE, TRUE)
    /\ changed' = IF handGesture' # handGesture THEN {"handGesture"} ELSE {}
    /\ UNCHANGED <<appVars, storeVars, asyncVars, splashTimer, composer, selectedCapsule,
                   streamActive, closureGesture, capsulesRef, selInfo, late>>

OnResultsNoHand ==
    /\ NoHandResult
    /\ loop' = nextSubmission(loop)

\* The same loop step by step.  The animation frame processVideo asked for
\* comes: the video is playing, so the frame it shows is sent.
processVideo ==
    /\ Settled
    /\ ARMounted /\ streamActive /\ loop.raf > 0
    /\ loop' = submit([loop EXCEPT !.raf = @ - 1])
    /\ UNCHANGED <<appVars, storeVars, asyncVars, splashTimer, composer, handGesture, handDetected,
                   selectedCapsule, streamActive, closureGesture, capsulesRef,
                   late, changed, lastOp, selInfo>>

\* hands.send delivers its result and resolves.
SendReturnsHand(landmarks) ==
    /\ HandResult(landmarks)
    /\ loop' = resolve(loop)

SendReturnsNoHand ==
    /\ NoHandResult
    /\ loop' = resolve(loop)

\* startCamera (or handleManualPlay) got the stream playing.
setStreamActive ==
    /\ Settled
    /\ ARMounted /\ ~streamActive
    /\ streamActive' = TRUE
    /\ lastOp' = NoOp
    /\ changed' = {"streamActive"}
    /\ UNCHANGED <<appVars, storeVars, asyncVars, splashTimer, composer, handGesture, handDetected,
                   selectedCapsule, closureGesture, capsulesRef, loop, late,
                   selInfo>>

\* ------------------------------------------------------- ARView: its list
\* Mutant: the App hands the AR view every capsule of the user.
ARCapsulesAll == capsules

\* <ARView capsules={nearbyCapsules} ...>: the list the AR view works on.
ARCapsules == nearbyCapsules

\* ------------------------------------------------------- ARView: pointer
\* handleCanvasClick when the ray hits the m-th marker of the scene.
FindById(list, id) ==
    LET hits == { i \in 1..Len(list) : list[i].id = id } IN
    IF hits = {} THEN NoCapsule
    ELSE list[CHOOSE i \in hits : \A j \in hits : i <= j]

handleCanvasClick(m) ==
    /\ Settled
    /\ ARMounted
    /\ m \in 1..Len(capsulesRef)
    /\ LET capsule == FindById(ARCapsules, capsulesRef[m].id) IN
         /\ capsule # NoCapsule
         /\ selectedCapsule' = capsule
         /\ selInfo' = [by |-> "pointer", at |-> location]
         /\ lastOp' = [NoOp EXCEPT !.op = "pick", !.id = capsule.id,
                                   !.prev = handGesture]
    /\ changed' = IF selectedCapsule' # selectedCapsule
                  THEN {"selectedCapsule"} ELSE {}
    /\ UNCHANGED <<appVars, storeVars, asyncVars, splashTimer, composer, handGesture, handDetected,
                   streamActive, closureGesture, capsulesRef, loop, late>>

\* The detail panel's close button.
ClosePanel ==
    /\ Settled
    /\ ARMounted
    /\ selectedCapsule # NoCapsule
    /\ selectedCapsule' = NoCapsule
    /\ selInfo' = NoSel
    /\ lastOp' = [NoOp EXCEPT !.op = "close", !.prev = handGesture]
    /\ changed' = {"selectedCapsule"}
    /\ UNCHANGED <<appVars, storeVars, asyncVars, splashTimer, composer, handGesture, handDetected,
                   streamActive, closureGesture, capsulesRef, loop, late>>

\* ------------------------------------------------------- the effects
\* Mutant: the radius excludes its boundary.
IsNearbyStrict(loc, c) == calculateDistance(loc, c.coordinates) < NEARBY_RADIUS

\* App: capsules.filter(c => calculateDistance(location, c.coordinates) <= 1000)
IsNearby(loc, c) == calculateDistance(loc, c.coordinates) <= NEARBY_RADIUS
nearby(loc, list) == SelectSeq(list, LAMBDA c : IsNearby(loc, c))

\* Mutant: an unstable sort, equal distances come out in reverse order.
RECURSIVE sortedUnstable(_, _)
sortedUnstable(loc, list) ==
    IF list = <<>> THEN <<>>
    ELSE LET n == Len(list)
             c == list[n]
             rest == sortedUnstable(loc, SubSeq(list, 1, n - 1))
             k == Cardinality({ i \in 1..Len(rest) :
                     calculateDistance(loc, rest[i].coordinates)
                       < calculateDistance(loc, c.coordinates) })
         IN SubSeq(rest, 1, k) \o <<c>> \o SubSeq(rest, k + 1, Len(rest))

\* ARView: [...capsules].sort((a, b) => distance(a) - distance(b)); the sort
\* is stable, so each element goes behind the elements that are not farther.
RECURSIVE sorted(_, _)
sorted(loc, list) ==
    IF list = <<>> THEN <<>>
    ELSE LET n == Len(list)
             c == list[n]
             rest == sorted(loc, SubSeq(list, 1, n - 1))
             k == Cardinality({ i \in 1..Len(rest) :
                     calculateDistance(loc, rest[i].coordinates)
                       <= calculateDistance(loc, c.coordinates) })
         IN SubSeq(rest, 1, k) \o <<c>> \o SubSeq(rest, k + 1, Len(rest))

\* Mutant: the fist branch is missing.
InteractionNoFist(gesture, selected, list, loc) ==
    IF gesture = "OPEN" /\ selected = NoCapsule
    THEN IF Len(list) > 0 THEN sorted(loc, list)[1] ELSE selected
    ELSE selected

\* Mutant: an open hand re-selects the nearest capsule on every run.
InteractionReselect(gesture, selected, list, loc) ==
    IF gesture = "OPEN"
    THEN IF Len(list) > 0 THEN sorted(loc, list)[1] ELSE selected
    ELSE IF gesture = "CLOSED" /\ selected # NoCapsule
         THEN NoCapsule
         ELSE selected

\* ARView "3. Interaction Logic": the selectedCapsule after the effect.
Interaction(gesture, selected, list, loc) ==
    IF gesture = "OPEN" /\ selected = NoCapsule
    THEN IF Len(list) > 0 THEN sorted(loc, list)[1] ELSE selected
    ELSE IF gesture = "CLOSED" /\ selected # NoCapsule
         THEN NoCapsule
         ELSE selected

\* Mutant: the effect does not depend on the selection.
InteractionDepsNoSelection ==
    {"arMount", "handGesture", "nearbyCapsules", "location"}

\* The interaction effect's dependency list:
\* [handGesture, capsules, userLocation, selectedCapsule], and the mount.
InteractionDeps ==
    {"arMount", "handGesture", "nearbyCapsules", "location", "selectedCapsule"}

\* Mutant: the marker's gate includes the boundary.
MarkerIsUnlockableIncl(loc, c) ==
    calculateDistance(loc, c.coordinates) <= UNLOCK_RADIUS

\* ARView "6. Capsule Object Creation": the proximity gate of a marker.
MarkerIsUnlockable(loc, c) ==
    calculateDistance(loc, c.coordinates) < UNLOCK_RADIUS

Max(a, b) == IF a >= b THEN a ELSE b
Min(a, b) == IF a <= b THEN a ELSE b

\* Mutant: the clamp with its two limits exchanged.
visualDistanceSwapped(distance) == Min(5 * 5, Max(distance, 5 * 50))

\* visualDistance = Math.max(5, Math.min(distance / 5, 50)), in fifths of a
\* scene unit: five times the value, so that distance / 5 stays exact.
visualDistance(distance) == Max(5 * 5, Min(distance, 5 * 50))

Markers(loc, list) ==
    [i \in 1..Len(list) |->
        [id |-> list[i].id,
         visualDistance |->
             visualDistance(calculateDistance(loc, list[i].coordinates)),
         isUnlockable |-> MarkerIsUnlockable(loc, list[i])]]

Runs(deps) == changed \cap deps # {}

\* One flush of the passive effects of the last commit.  Every effect reads
\* the committed values (the unprimed variables); the updates are batched
\* into the next commit.
FlushEffects ==
    /\ ~Settled
    /\ LET \* App effect 1: restore the stored session (mount only)
           restore == Runs({"mount"}) /\ session # NoUser
           \* App effect 2: load the current user's capsules
           load == Runs({"mount", "currentUser"}) /\ currentUser # NoUser
           \* App effect 3: save the capsules under the current user's key
           save == Runs({"mount", "capsules", "currentUser"})
                     /\ currentUser # NoUser
           \* App effect 5: recompute the nearby list
           filter == Runs({"mount", "location", "capsules"}) /\ location # NoLoc
           \* ARView effects
           track == ARMounted /\ Runs({"arMount", "streamActive"})
           interact == ARMounted /\ Runs(InteractionDeps)
           place == ARMounted
                      /\ Runs({"arMount", "nearbyCapsules", "location"})
           sel == IF interact
                  THEN Interaction(handGesture, selectedCapsule,
                                   ARCapsules, location)
                  ELSE selectedCapsule
       IN
         /\ currentUser' = IF restore THEN session ELSE currentUser
         /\ capsules' = IF load
                        THEN (IF store[currentUser].has
                              THEN store[currentUser].data ELSE <<>>)
                        ELSE capsules
         /\ store' = IF save
                     THEN [store EXCEPT ![currentUser] =
                             [has |-> TRUE, data |-> capsules]]
                     ELSE store
         /\ nearbyCapsules' = IF filter THEN nearby(location, capsules)
                              ELSE nearbyCapsules
         /\ closureGesture' = IF track THEN handGesture ELSE closureGesture
         \* the tracking effect's cleanup, then its body: processVideo() is
         \* called if streamActive
         /\ late' = IF track /\ ~Runs({"arMount"})
                     THEN late \cup orphanActs(teardown(loop), TRUE)
                     ELSE late
         /\ loop' = IF track
                     THEN (IF streamActive THEN submit(NoLoop) ELSE NoLoop)
                     ELSE loop
         /\ selectedCapsule' = sel
         /\ selInfo' = IF sel = selectedCapsule THEN selInfo
                       ELSE IF sel = NoCapsule
                            THEN [by |-> "fist", at |-> 0]
                            ELSE [by |-> "gesture", at |-> location]
         /\ capsulesRef' = IF place THEN Markers(location, ARCapsules)
                           ELSE capsulesRef
         \* the App re-renders if an App effect set state
         /\ splashTimer' =
              IF appState # "splash" THEN splashTimer
              ELSE SplashRender(splashTimer, restore \/ load \/ filter)
         /\ changed' = (IF restore THEN {"currentUser"} ELSE {})
                         \cup (IF load THEN {"capsules"} ELSE {})
                         \cup (IF filter THEN {"nearbyCapsules"} ELSE {})
                         \cup (IF sel # selectedCapsule
                               THEN {"selectedCapsule"} ELSE {})
    /\ UNCHANGED <<appState, currentView, location, isScanning, statusMessage,
                   session, asyncVars, composer, handGesture, handDetected,
                   streamActive,
                   lastOp>>

\* --------------------------------------------------------------- the system
Next ==
    \/ SplashWait
    \/ handleSplashComplete
    \/ handleIntroComplete
    \/ \E u \in Users : handleLoginSuccess(u)
    \/ handleLogout
    \/ \E to \in {"radar", "create", "signal-composer", "view-capsule",
                  "profile"} : setCurrentView(to)
    \/ \E p \in Positions : LocationUpdate(p)
    \/ LocationError
    \/ handleScan
    \/ ScanTimeout
    \/ handleSave
    \/ handleSaveCapsule
    \/ toggleCell
    \/ handleTransmit
    \/ handleBroadcastSignal
    \/ setStreamActive
    \/ \E f \in Frames : OnResultsHand(f)
    \/ OnResultsNoHand
    \/ \E m \in 1..Len(capsulesRef) : handleCanvasClick(m)
    \/ ClosePanel
    \/ FlushEffects

Spec == Init /\ [][Next]_vars

\* ------------------------------------------------- the App shell
\* The App with the AR view left to itself: the App's handlers, timers and
\* effects, and the AR view's mount, unmount and effects, but no camera
\* stream, perception result or pointer event, and nothing composed in the
\* signal composer (SpecSignal).
NextApp ==
    \/ SplashWait
    \/ handleSplashComplete
    \/ handleIntroComplete
    \/ \E u \in Users : handleLoginSuccess(u)
    \/ handleLogout
    \/ \E to \in {"radar", "create", "signal-composer", "view-capsule",
                  "profile"} : setCurrentView(to)
    \/ \E p \in Positions : LocationUpdate(p)
    \/ LocationError
    \/ handleScan
    \/ ScanTimeout
    \/ handleSave
    \/ handleSaveCapsule
    \/ FlushEffects

SpecApp == Init /\ [][NextApp]_vars

\* A timer callback runs whenever the event loop gets to it, and pending
\* passive effects are always flushed.
FairSpecApp == SpecApp /\ SF_vars(ScanTimeout) /\ WF_vars(FlushEffects)

\* ------------------------------------------------- a signed-in session
\* The capsule lists a user's storage key may hold: capsules 1..n in the
\* order they were saved, each anchored where its author stood.
RECURSIVE CapsuleLists(_, _)
CapsuleLists(u, n) ==
    IF n = 0 THEN {<<>>}
    ELSE CapsuleLists(u, n - 1) \cup
         { Append(l, [id |-> n, coordinates |-> p, userId |-> u]) :
             l \in { x \in CapsuleLists(u, n - 1) : Len(x) = n - 1 },
             p \in Positions }

\* The app as it stands once a returning user is in: the stored session has
\* been restored, the user's capsules loaded and written back, the splash
\* and intro are over, and the GPS has no fix yet.
InitSession ==
    /\ appState = "main"
    /\ currentUser \in Users
    /\ currentView = "radar"
    /\ location = NoLoc
    /\ isScanning = FALSE
    /\ capsules \in CapsuleLists(currentUser, MaxCapsules)
    /\ nearbyCapsules = <<>>
    /\ statusMessage = Msg("SYSTEM INITIALIZING...", 0)
    /\ session = currentUser
    /\ store = [u \in Users |->
                  IF u = currentUser THEN [has |-> TRUE, data |-> capsules]
                  ELSE NoData]
    /\ scanTimers = <<>>
    /\ savePending = [active |-> FALSE, user |-> NoUser, loc |-> NoLoc]
    /\ nextId = Len(capsules) + 1
    /\ splashTimer = NoTimer
    /\ composer = NoComposer
    /\ transmitTimers = <<>>
    /\ handGesture = "NONE"
    /\ handDetected = FALSE
    /\ selectedCapsule = NoCapsule
    /\ streamActive = FALSE
    /\ closureGesture = "NONE"
    /\ capsulesRef = <<>>
    /\ loop = NoLoop
    /\ late = {}
    /\ changed = {}
    /\ lastOp = NoOp
    /\ selInfo = NoSel

\* What can happen in such a session short of composing a capsule or
\* signing out: moving, scanning, changing views, and the AR view.  (A GPS
\* error changes the status line only; it is part of NextApp.)
NextAR ==
    \/ \E to \in {"radar", "create", "signal-composer", "view-capsule",
                  "profile"} : setCurrentView(to)
    \/ \E p \in Positions : LocationUpdate(p)
    \/ handleScan
    \/ ScanTimeout
    \/ setStreamActive
    \/ \E f \in Frames : OnResultsHand(f)
    \/ OnResultsNoHand
    \/ \E m \in 1..Len(capsulesRef) : handleCanvasClick(m)
    \/ ClosePanel
    \/ FlushEffects

SpecAR == InitSession /\ [][NextAR]_vars

\* ------------------------------------------------- the perception loop
\* The same session with the perception loop taken step by step (frame
\* request, submission, result), so that the view can be left at any point
\* of the loop; the pointer is left out.
NextLoop ==
    \/ \E to \in {"radar", "create", "signal-composer", "view-capsule",
                  "profile"} : setCurrentView(to)
    \/ \E p \in Positions : LocationUpdate(p)
    \/ handleScan
    \/ ScanTimeout
    \/ setStreamActive
    \/ processVideo
    \/ \E f \in Frames : SendReturnsHand(f)
    \/ SendReturnsNoHand
    \/ FlushEffects

SpecLoop == InitSession /\ [][NextLoop]_vars

\* ------------------------------------------------- the classifier
\* A session with one stored capsule and nothing but the way into the AR
\* view and the perception results: every frame of Frames is classified in
\* every state of the gesture, the selection and the callback's closure.
InitGesture == InitSession /\ Len(capsules) = 1

NextGesture ==
    \/ \E p \in Positions : LocationUpdate(p)
    \/ handleScan
    \/ ScanTimeout
    \/ setStreamActive
    \/ \E f \in Frames : OnResultsHand(f)
    \/ OnResultsNoHand
    \/ FlushEffects

SpecGesture == InitGesture /\ [][NextGesture]_vars

\* ------------------------------------------------- accounts
\* The device at the login screen with nothing stored, and what its users
\* can do short of scanning: sign in under any of Usernames, move, compose
\* and save capsules, sign out.
InitAccounts ==
    /\ appState = "login"
    /\ currentUser = NoUser
    /\ currentView = "radar"
    /\ location = NoLoc
    /\ isScanning = FALSE
    /\ capsules = <<>>
    /\ nearbyCapsules = <<>>
    /\ statusMessage = Msg("SYSTEM INITIALIZING...", 0)
    /\ session = NoUser
    /\ store = [u \in Accounts |-> NoData]
    /\ scanTimers = <<>>
    /\ savePending = [active |-> FALSE, user |-> NoUser, loc |-> NoLoc]
    /\ nextId = 1
    /\ splashTimer = NoTimer
    /\ composer = NoComposer
    /\ transmitTimers = <<>>
    /\ handGesture = "NONE"
    /\ handDetected = FALSE
    /\ selectedCapsule = NoCapsule
    /\ streamActive = FALSE
    /\ closureGesture = "NONE"
    /\ capsulesRef = <<>>
    /\ loop = NoLoop
    /\ late = {}
    /\ changed = {}
    /\ lastOp = NoOp
    /\ selInfo = NoSel

NextAccounts ==
    \/ \E n \in Usernames : handleLogin(n)
    \/ handleLogout
    \/ \E to \in {"radar", "create", "profile"} : setCurrentView(to)
    \/ \E p \in Positions : LocationUpdate(p)
    \/ handleSave
    \/ handleSaveCapsule
    \/ FlushEffects

SpecAccounts == InitAccounts /\ [][NextAccounts]_vars

\* ------------------------------------------------- the signal composer
\* A signed-in session in which signals are composed and broadcast: the
\* way into the composer and out of it, the grid, the BROADCAST button and
\* the transmission timers.
NextSignal ==
    \/ \E to \in {"radar", "signal-composer"} : setCurrentView(to)
    \/ \E p \in Positions : LocationUpdate(p)
    \/ toggleCell
    \/ handleTransmit
    \/ handleBroadcastSignal
    \/ FlushEffects

SpecSignal == InitSession /\ [][NextSignal]_vars

TypeOK ==
    /\ appState \in {"splash", "intro", "login", "main"}
    /\ handGesture \in {"NONE", "OPEN", "CLOSED"}
    /\ location \in Positions \cup {NoLoc}
    /\ Len(capsules) <= MaxCapsules

\* ------------------------------------------------------- what is rendered
\* The fields of a capsule the views put on screen.  Every optional field
\* (image, video, audio, aiAnalysis, locationName) is taken as present, the
\* case in which the most is rendered.
ContentFields == {"content", "image", "video", "audio", "aiAnalysis"}
MediaFlags == {"imageFlag", "videoFlag", "audioFlag"}

\* CapsuleList: distance = currentLocation ? calculateDistance(..) : Infinity;
\* isUnlockable = distance < 50
ListIsUnlockable(loc, c) ==
    (IF loc # NoLoc THEN calculateDistance(loc, c.coordinates) ELSE INFINITY)
      < UNLOCK_RADIUS

ListRendered(loc, c) ==
    {"distance", "locationName", "timestamp"}
      \cup (IF ListIsUnlockable(loc, c) THEN ContentFields
            ELSE MediaFlags \cup {"placeholder"})

\* Mutant: the panel's gate includes the boundary.
PanelIsUnlockableIncl(loc, c) ==
    calculateDistance(loc, c.coordinates) <= UNLOCK_RADIUS

\* ARView's detail panel: calculateDistance(userLocation, selected) < 50
PanelIsUnlockable(loc, c) ==
    calculateDistance(loc, c.coordinates) < UNLOCK_RADIUS

PanelRendered(loc, c) ==
    IF PanelIsUnlockable(loc, c)
    THEN {"locationName", "timestamp"} \cup ContentFields
    ELSE {"distance"} \cup MediaFlags

ListShown == appState = "main" /\ currentView = "view-capsule"
PanelShown == ARMounted /\ selectedCapsule # NoCapsule

\* ================================================================== claims
Dist(c) == calculateDistance(location, c.coordinates)
HandTick == lastOp.op = "hand" /\ ~lastOp.threw

\* C1: hysteresis.  After a frame with a hand and 2 or 3 folded fingers the
\* gesture state is the state before the frame, whatever that state was.
C1_AmbiguousHolds ==
    (HandTick /\ lastOp.folded \in {2, 3}) => handGesture = lastOp.prev

C1_Witness ==
    HandTick /\ lastOp.folded = 2 /\ lastOp.prev = "OPEN" /\ handGesture = "OPEN"

\* C2: after a frame with a hand, 4 or more folded fingers leave the gesture
\* CLOSED and 1 or fewer leave it OPEN, whatever the gesture was before.
C2_DefinitiveSets ==
    HandTick =>
        /\ lastOp.folded >= 4 => handGesture = "CLOSED"
        /\ lastOp.folded <= 1 => handGesture = "OPEN"

C2_Witness ==
    /\ HandTick /\ lastOp.folded = 4 /\ lastOp.prev = "OPEN"
    /\ handGesture = "CLOSED"

\* C3: a perception result without a hand sets the gesture to NONE on that
\* tick, from any previous state.
C3_NoHandResets ==
    lastOp.op = "nohand" => (handGesture = "NONE" /\ ~handDetected)

C3_Witness ==
    lastOp.op = "nohand" /\ lastOp.prev = "OPEN" /\ handGesture = "NONE"

\* C4 (as claimed): a frame with fewer than 21 landmarks does not throw and
\* leaves the gesture NONE, like a tick without a hand.
C4_MalformedIsNoHand ==
    (lastOp.op = "hand" /\ lastOp.n < FULL_HAND) =>
        (~lastOp.threw /\ handGesture = "NONE" /\ ~handDetected)

\* The first index of `list` at minimum distance from loc.
IsFirstNearest(c, list, loc) ==
    \E i \in 1..Len(list) :
        /\ list[i] = c
        /\ \A j \in 1..Len(list) :
              calculateDistance(loc, list[i].coordinates)
                <= calculateDistance(loc, list[j].coordinates)
        /\ \A j \in 1..(i - 1) :
              calculateDistance(loc, list[j].coordinates)
                > calculateDistance(loc, list[i].coordinates)

InteractionRuns ==
    /\ FlushEffects
    /\ ARMounted
    /\ Runs({"arMount", "handGesture", "nearbyCapsules", "location",
             "selectedCapsule"})

\* C5: when the interaction effect runs with gesture OPEN and no selection,
\* Selection becomes the first entity of the nearby list at minimum distance
\* from the user, and stays empty if the list is empty; and no settled state
\* has gesture OPEN, a non-empty list and no selection.
C5_OpenSelectsNearest ==
    /\ [][(InteractionRuns /\ handGesture = "OPEN"
             /\ selectedCapsule = NoCapsule)
          => IF nearbyCapsules = <<>>
             THEN selectedCapsule' = NoCapsule
             ELSE IsFirstNearest(selectedCapsule', nearbyCapsules, location)]_vars
    /\ [](ARMounted /\ Settled /\ handGesture = "OPEN"
            /\ nearbyCapsules # <<>> => selectedCapsule # NoCapsule)

C5_Witness ==
    /\ ARMounted /\ Settled /\ handGesture = "OPEN"
    /\ selInfo.by = "gesture" /\ selInfo.at = location
    /\ Len(nearbyCapsules) = 2
    /\ Dist(nearbyCapsules[1]) = Dist(nearbyCapsules[2])
    /\ selectedCapsule = nearbyCapsules[1]

\* C6: in a settled state with gesture CLOSED no selection is active, and a
\* CLOSED tick that follows a CLOSED state leaves Selection empty and
\* schedules nothing.
C6_FistClears ==
    /\ (ARMounted /\ Settled /\ handGesture = "CLOSED")
          => selectedCapsule = NoCapsule
    /\ (HandTick /\ lastOp.folded >= 4 /\ lastOp.prev = "CLOSED")
          => (Settled /\ selectedCapsule = NoCapsule /\ handGesture = "CLOSED")

C6_Witness ==
    /\ HandTick /\ lastOp.folded >= 4 /\ lastOp.prev = "CLOSED"
    /\ selInfo.by = "fist" /\ selectedCapsule = NoCapsule

\* C7: while a selection is active and the gesture stays OPEN, no step other
\* than a pointer pick or the close button changes the selected capsule.
C7_OpenKeepsTarget ==
    [][(/\ ARMounted /\ ARMounted'
        /\ selectedCapsule # NoCapsule
        /\ handGesture = "OPEN" /\ handGesture' = "OPEN"
        /\ ~(\E m \in 1..Len(capsulesRef) : handleCanvasClick(m))
        /\ ~ClosePanel)
       => selectedCapsule' = selectedCapsule]_vars

C7_Witness ==
    /\ ARMounted /\ Settled /\ handGesture = "OPEN"
    /\ selectedCapsule # NoCapsule
    /\ selInfo.at # location
    /\ \E i \in 1..Len(nearbyCapsules) :
          Dist(nearbyCapsules[i]) < Dist(selectedCapsule)

\* C8 (as claimed): once the updates of a pointer pick have settled, the
\* picked entity is selected, for every gesture state.
C8_PickSticks ==
    (ARMounted /\ Settled /\ lastOp.op = "pick")
        => selectedCapsule.id = lastOp.id

\* C9: no view renders a content field of a capsule whose distance from the
\* user is 50 m or more (or unknown).
C9_LockedContentHidden ==
    /\ ListShown =>
         \A i \in 1..Len(nearbyCapsules) :
            (location = NoLoc \/ Dist(nearbyCapsules[i]) >= 50)
              => ListRendered(location, nearbyCapsules[i]) \cap ContentFields = {}
    /\ (PanelShown /\ Dist(selectedCapsule) >= 50)
         => PanelRendered(location, selectedCapsule) \cap ContentFields = {}

C9_Witness ==
    /\ PanelShown /\ Settled
    /\ calculateDistance(selInfo.at, selectedCapsule.coordinates) < 50
    /\ Dist(selectedCapsule) >= 50

\* C10: the list, the marker and the panel gate one entity alike: unlocked
\* exactly when its distance is below 50 m.
C10_GateAgrees ==
    /\ location # NoLoc =>
         \A i \in 1..Len(nearbyCapsules) :
            ListIsUnlockable(location, nearbyCapsules[i])
              <=> Dist(nearbyCapsules[i]) < 50
    /\ (ARMounted /\ Settled) =>
         /\ Len(capsulesRef) = Len(nearbyCapsules)
         /\ \A i \in 1..Len(capsulesRef) :
              /\ capsulesRef[i].id = nearbyCapsules[i].id
              /\ capsulesRef[i].isUnlockable
                   <=> ListIsUnlockable(location, nearbyCapsules[i])
              /\ capsulesRef[i].isUnlockable
                   <=> PanelIsUnlockable(location, nearbyCapsules[i])
         /\ selectedCapsule # NoCapsule =>
              (PanelIsUnlockable(location, selectedCapsule)
                 <=> ListIsUnlockable(location, selectedCapsule))

C10_Witness ==
    /\ ARMounted /\ Settled /\ selectedCapsule # NoCapsule
    /\ \E i, j \in 1..Len(capsulesRef) :
          /\ Dist(nearbyCapsules[i]) = 49 /\ capsulesRef[i].isUnlockable
          /\ Dist(nearbyCapsules[j]) = 50 /\ ~capsulesRef[j].isUnlockable

\* C18 (as claimed): a frame that classifies as the definitive state the
\* gesture already has does not call setHandGesture.
C18_NoRedundantSet ==
    (HandTick /\ newState(lastOp.folded) # "NONE"
       /\ newState(lastOp.folded) = lastOp.prev) => ~lastOp.set

\* C19: the scene distance of every marker is max(5, min(d / 5, 50)) for its
\* raw distance d: within [5, 50], 5 for d <= 25, 50 for d >= 250 and d / 5
\* in between (all values in fifths).
C19_VisualDistanceClamped ==
    (ARMounted /\ Settled) =>
        \A i \in 1..Len(capsulesRef) :
            LET d == Dist(nearbyCapsules[i])
                v == capsulesRef[i].visualDistance
            IN /\ 5 * 5 <= v /\ v <= 5 * 50
               /\ d <= 25 => v = 5 * 5
               /\ d >= 250 => v = 5 * 50
               /\ (25 < d /\ d < 250) => v = d

C19_Witness ==
    /\ ARMounted /\ Settled
    /\ \E i, j \in 1..Len(capsulesRef) :
          /\ Dist(nearbyCapsules[i]) = 1 /\ capsulesRef[i].visualDistance = 25
          /\ Dist(nearbyCapsules[j]) = 1000
          /\ capsulesRef[j].visualDistance = 250

\* C11: once the user location is known, in every settled state the nearby
\* list is the sub-list of the current capsules at most 1000 m from the
\* user, in the capsules' order.
C11_NearbyIsFilter ==
    (Settled /\ location # NoLoc) =>
        nearbyCapsules = SelectSeq(capsules, LAMBDA c : Dist(c) <= 1000)

C11_Witness ==
    /\ Settled /\ location # NoLoc
    /\ Len(capsules) = 2 /\ Len(nearbyCapsules) = 1
    /\ Dist(nearbyCapsules[1]) = 1000
    /\ \E i \in 1..2 : Dist(capsules[i]) = 1001

\* C12: a triggered scan sets the scanning flag and starts the latency window;
\* the end of the window clears the flag, and, the nearby list being what it
\* was at the trigger, reports its n > 0 entities and switches to the AR view,
\* or reports no traces and leaves the view alone when it is empty; and every
\* scan does come to its end.
C12_ScanCompletes ==
    /\ [][handleScan => (isScanning' /\ scanTimers' # <<>>)]_vars
    /\ [][(ScanTimeout /\ Head(scanTimers) = Len(nearbyCapsules)) =>
            /\ ~isScanning'
            /\ IF Len(nearbyCapsules) > 0
               THEN /\ statusMessage' = Msg("SIGNALS DETECTED. ENGAGING HUD.",
                                            Len(nearbyCapsules))
                    /\ currentView' = "ar-view"
               ELSE /\ statusMessage' = Msg("NO TRACES FOUND IN SECTOR.", 0)
                    /\ currentView' = currentView]_vars
    /\ (isScanning ~> ~isScanning)

C12_Witness ==
    /\ ~isScanning /\ currentView = "ar-view" /\ Len(nearbyCapsules) = 2
    /\ statusMessage = Msg("SIGNALS DETECTED. ENGAGING HUD.", 2)

\* C13 (as claimed): when the user has left the radar view (or logged out)
\* during the latency window, the end of the window changes neither the
\* current view nor the status message.
C13_ScanCancelled ==
    [][(ScanTimeout /\ (appState # "main" \/ currentView # "radar")) =>
         (currentView' = currentView /\ statusMessage' = statusMessage)]_vars

\* C14: the scanning flag is set exactly while a scan timer is pending: one
\* timer when it is set, none when it is not, in every reachable state.
C14_FlagIffTimer ==
    Len(scanTimers) = (IF isScanning THEN 1 ELSE 0)

C14_Witness ==
    /\ isScanning /\ Len(scanTimers) = 1
    /\ appState = "main" /\ currentView = "radar" /\ Settled
    /\ statusMessage = Msg("MEMORY TRACE ESTABLISHED.", 0)

\* C20 (as claimed): without a fix the sentinel position 0 stands in for the
\* user location: the nearby list is the filter of the capsules around 0 and
\* the list view unlocks a capsule exactly when it is less than 50 m from 0.
C20_SentinelSubstituted ==
    (Settled /\ appState = "main" /\ location = NoLoc) =>
        /\ nearbyCapsules =
              SelectSeq(capsules,
                        LAMBDA c : calculateDistance(0, c.coordinates) <= 1000)
        /\ \A i \in 1..Len(capsules) :
              ListIsUnlockable(location, capsules[i])
                <=> calculateDistance(0, capsules[i].coordinates) < 50

\* C16: whenever the AR view is left and whenever it is entered, the gesture
\* is NONE and nothing is selected in the state that follows; what an earlier
\* session selected or confirmed is gone.
C16_EntryIsFresh ==
    [][(ARMounted # ARMounted') =>
          (handGesture' = "NONE" /\ selectedCapsule' = NoCapsule)]_vars

C16_Witness ==
    /\ ARMounted /\ lastOp.op = "entry"
    /\ lastOp.prev = "OPEN"
    /\ handGesture = "NONE" /\ selectedCapsule = NoCapsule

\* C15: a torn-down perception loop sends no further frame and never gets to
\* detectGesture, also when it is torn down while a send is awaited; and a
\* second teardown changes nothing.
C15_TeardownHalts ==
    /\ late = {}
    /\ teardown(teardown(loop)) = teardown(loop)
    /\ orphanActs(teardown(teardown(loop)), FALSE) = {}

C15_Witness ==
    /\ ~ARMounted /\ lastOp.op = "teardown" /\ lastOp.n = 1 /\ late = {}

\* C17: the loop has at most one submission in flight, and never a frame
\* request pending next to it: the next frame is asked for only when the send
\* has settled.
C17_OneFrameInFlight ==
    /\ loop.sends <= 1
    /\ loop.raf + loop.sends <= 1
    /\ (ARMounted /\ Settled /\ streamActive) => loop.raf + loop.sends = 1

C17_Witness ==
    ARMounted /\ loop.raf = 1 /\ loop.sends = 0 /\ lastOp.op = "hand"

C22_FoldedCount ==
    [][ lastOp'.op = "hand" =>
          \A f \in Frames :
            (~Throws(f) /\ OnResultsHand(f)) =>
               LET p2 == Dist2(f[10], f[1])
                   inside == { t \in {8, 12, 16, 20} :
                                 25 * Dist2(f[t + 1], f[1]) < 64 * p2 }
                   atEdge == { t \in {8, 12, 16, 20} :
                                 25 * Dist2(f[t + 1], f[1]) = 64 * p2 }
                   thumbIn == 100 * Dist2(f[5], f[1]) < 169 * p2
               IN /\ lastOp'.folded
                       = Cardinality(inside) + (IF thumbIn THEN 1 ELSE 0)
                  /\ lastOp'.folded <= 5 - Cardinality(atEdge)
                  /\ p2 = 0 => lastOp'.folded = 0 ]_vars

\* a frame with all five tips inside has been counted, and the hand is
\* taken for a fist
C22_Witness ==
    /\ HandTick
    /\ lastOp.folded = 5
    /\ handGesture = "CLOSED"

\* C23: the outcome of a scan is decided by the nearby set of the moment the
\* scan was triggered: when the timer fires, the count reported and the
\* switch to the AR view are those of that set, whatever the nearby set has
\* become during the window.
C23_OutcomeFromTrigger ==
    [][ (scanTimers # <<>> /\ scanTimers' = Tail(scanTimers)) =>
          LET atTrigger == Head(scanTimers) IN
          /\ ~isScanning'
          /\ atTrigger > 0 =>
               /\ statusMessage' = Msg("SIGNALS DETECTED. ENGAGING HUD.", atTrigger)
               /\ currentView' = "ar-view"
          /\ atTrigger = 0 =>
               /\ statusMessage' = Msg("NO TRACES FOUND IN SECTOR.", 0)
               /\ currentView' = currentView ]_vars

\* a scan is in flight and the nearby set is no longer the one it was
\* triggered with
C23_Witness ==
    /\ Settled
    /\ isScanning
    /\ scanTimers # <<>>
    /\ Head(scanTimers) # Len(nearbyCapsules)

\* C24: whenever the current view is the AR view, a user location is known,
\* so the AR view is never selected while its mount condition (a location)
\* is false, also when the scan was triggered without a GPS fix.
C24_ARViewHasLocation == currentView = "ar-view" => location # NoLoc

\* a scan found signals and switched to the AR view, which is mounted
C24_Witness ==
    /\ currentView = "ar-view"
    /\ statusMessage.msg = "SIGNALS DETECTED. ENGAGING HUD."
    /\ ARMounted

\* C25: the selection is only ever set, by the gesture or by the pointer, to
\* a capsule of the list the AR view holds at that moment, the nearby list
\* of the render the effect or the handler belongs to.
C25_SelectionFromList ==
    [][ ( /\ selectedCapsule' # NoCapsule
          /\ \/ selectedCapsule' # selectedCapsule
             \/ lastOp'.op = "pick" ) =>
          \E i \in 1..Len(nearbyCapsules) :
             nearbyCapsules[i] = selectedCapsule' ]_vars

\* both ways of selecting have acted: the pointer picked a capsule of a list
\* of two while the open hand held another selection
C25_Witness ==
    /\ lastOp.op = "pick"
    /\ lastOp.prev = "OPEN"
    /\ selInfo.by = "pointer"
    /\ Len(nearbyCapsules) = 2
    /\ selectedCapsule = nearbyCapsules[2]

\* C26: when the detail panel is dismissed with its close button while the
\* gesture is OPEN and the nearby list is not empty, the nearest capsule is
\* selected again once the update has settled; the dismissal leaves the
\* selection empty when the gesture is not OPEN.
C26_CloseReselects ==
    (ARMounted /\ Settled /\ lastOp.op = "close") =>
        /\ (lastOp.prev = "OPEN" /\ nearbyCapsules # <<>>) =>
              /\ IsFirstNearest(selectedCapsule, nearbyCapsules, location)
              /\ selInfo.by = "gesture"
        /\ lastOp.prev # "OPEN" => selectedCapsule = NoCapsule
        /\ (selectedCapsule = NoCapsule /\ nearbyCapsules # <<>>) =>
              lastOp.prev # "OPEN"

\* the panel was closed under an open hand and the update has settled with
\* the nearest of two capsules selected by the gesture
C26_Witness ==
    /\ ARMounted /\ Settled
    /\ lastOp.op = "close" /\ lastOp.prev = "OPEN"
    /\ Len(nearbyCapsules) = 2
    /\ selectedCapsule # NoCapsule
    /\ selInfo.by = "gesture"

\* C27: once the splash screen is shown its completion callback fires and
\* the app leaves the 'splash' state 4 seconds after the splash was first
\* shown, also when the App re-renders meanwhile (a geolocation update, the
\* session restore): the app is never in 'splash' later than that.
C27_SplashCompletes ==
    appState = "splash" => splashTimer.shown <= SPLASH_SECONDS

\* C28: two different usernames always get different user ids from
\* loginUser, so that two different accounts never read or write the same
\* per-user store key: whenever a username signs in, the id it is given is
\* the id of no other username.
C28_DistinctIds ==
    [][ \A a \in Usernames : \A b \in Usernames :
          (a # b /\ handleLogin(a)) => currentUser' # loginUser(b).id ]_vars

\* C29: per-user persistence round-trips.  What a user's list holds at
\* logout is what is stored under the user's key, the key is left alone
\* while nobody is signed in, and the next sign-in loads it back, so that
\* the settled list is the list of the logout; and in every settled state no
\* capsule saved by one user is in the list or in the stored data of
\* another.
C29_PerUserRoundTrip ==
    /\ [][handleLogout => store[currentUser].data = capsules]_vars
    /\ [][currentUser = NoUser => store' = store]_vars
    /\ [][(FlushEffects /\ "currentUser" \in changed /\ currentUser # NoUser
             /\ store[currentUser].has)
          => capsules' = store[currentUser].data]_vars
    /\ []((Settled /\ currentUser # NoUser) =>
            /\ store[currentUser].has
            /\ store[currentUser].data = capsules)
    /\ [](Settled =>
            /\ \A u \in DOMAIN store : \A i \in 1..Len(store[u].data) :
                  store[u].data[i].userId = u
            /\ currentUser # NoUser =>
                  \A i \in 1..Len(capsules) : capsules[i].userId = currentUser)

\* C30: one composed signal is saved as at most one capsule: however many
\* times BROADCAST is pressed during the transmission window, only the
\* first press of the composer adds a capsule, one capsule, and no press on
\* an empty grid starts a transmission.
C30_OneCapsulePerSignal ==
    [][ /\ Len(capsules') <= Len(capsules) + 1
        /\ (transmitTimers # <<>> /\ transmitTimers' = Tail(transmitTimers)
              /\ Len(capsules') > Len(capsules))
             => Head(transmitTimers).press = 1
        /\ Len(transmitTimers') > Len(transmitTimers)
             => composer.grid # "empty" ]_vars

====
